---- MODULE Spec2Model ----
(***************************************************************************)
(* The search page of the AI tool marketplace front end (SearchPage) and   *)
(* the part of ApiClient it calls.  The page is a React component: every   *)
(* event handler runs to completion, its state updates are batched into    *)
(* one render, and the search effect of that render runs before the next   *)
(* event.  A handler together with the render and the effect run it causes *)
(* is one action.  A search request that was issued keeps the values of    *)
(* the render that issued it (its closure) until its response arrives.     *)
(***************************************************************************)
EXTENDS Integers, Sequences, FiniteSets, TLC

\* ------------------------------------------------------------- bounds
\* Load More is not offered beyond this page.
MaxPage == 2
\* No new request is issued while this many are awaiting a response, in the
\* runs with overlapping requests, in the runs with every filter control and
\* in the runs with one value of every filter.
MaxInFlight == 2
MaxInFlightFilters == 1
MaxInFlightBasic == 1
MaxInFlightOverlap == 2
\* A response that would make the list longer than this is not delivered.
MaxTools == 2
\* The trending page offers Load More up to this page.
MaxTrendingPage == 5
\* No auth request is issued while this many await a response.
MaxAuthPending == 2

\* ------------------------------------------------------------- values
\* An unset value (null, undefined, a parameter that is not sent) is the empty
\* sequence and a set value v is << v >>.
Null == <<>>
Some(v) == << v >>

\* The tiers the pricing checkboxes offer.
pricingOptions == << "free", "freemium", "paid", "subscription", "open_source" >>

\* The thresholds the rating radios offer.
ratingOptions == << 4, 3, 2 >>

Range(s) == { s[i] : i \in 1..Len(s) }

\* ------------------------------------------------------------- state
VARIABLES
    mounted,            \* the component's effects have run once
    query, tools, categories, isLoading, total, page, hasMore,
    selectedCategory, selectedPricing, minRating,
    categoriesPending,  \* the categories request awaits its response
    inflight,           \* search requests awaiting a response, in issue order
    routerPush,         \* the address the last step pushed to the router, if any
    lastRequest,        \* what the last run of the search effect requested
    lastOp,             \* the operation that acted last
    latest,             \* the request issued last: none, pending, applied or failed
    oddToggles,         \* tiers toggled an odd number of times since the set was empty
    fetched,            \* pages fetched since accumulation last restarted
    token,              \* ApiClient.token
    localStorageToken,  \* the 'token' item of localStorage
    locationHref        \* the address assigned to window.location.href, if any

\* The trending page (TrendingPage).  The items of page p of the trending
\* ranking are the one-element list << p >>.
VARIABLES
    trendingMounted,    \* the component's effect has run once
    trendingTools, trendingIsLoading, trendingPage, trendingHasMore,
    trendingInflight    \* the page of the request awaiting a response, if any

\* The state of the search page.
searchPage == << mounted, query, tools, categories, isLoading, total, page, hasMore,
                 selectedCategory, selectedPricing, minRating, categoriesPending,
                 inflight, routerPush, lastRequest, lastOp, latest,
                 oddToggles, fetched >>

\* The state of the API client and of the window it runs in.
client == << token, localStorageToken, locationHref >>

\* The state of the trending page.
trending == << trendingMounted, trendingTools, trendingIsLoading, trendingPage,
               trendingHasMore, trendingInflight >>

\* Calls of ApiClient's auth methods.
VARIABLES
    authPending         \* auth requests awaiting a response, in issue order

auth == << authPending >>

\* The submit wizard (SubmitToolPage).  The data extracted from a URL is
\* identified by that URL.
VARIABLES
    step, url, isExtracting, isSubmitting, extractedData, submittedToolSlug,
    isAuthenticated,    \* what useAuth reports
    extractPending,     \* the URL of the extraction request awaiting a response
    submitPending,      \* the URL of the submit request awaiting a response
    toast,              \* the message of the last toast
    wizardPush          \* the address pushed to the router, if any

wizard == << step, url, isExtracting, isSubmitting, extractedData,
             submittedToolSlug, isAuthenticated, extractPending, submitPending,
             toast, wizardPush >>

\* The admin layout (AdminLayout).
VARIABLES
    adminMounted,       \* the layout's effect has run once
    pathname,           \* usePathname()
    authIsLoading, authIsAuthenticated,
    userRole,           \* user?.role, if there is a user
    adminPush,          \* the address the guard pushed to the router, if any
    adminToast          \* the message of the guard's toast, if any

adminLayout == << adminMounted, pathname, authIsLoading, authIsAuthenticated,
                  userRole, adminPush, adminToast >>

\* The home page (HomePage).
VARIABLES
    homeMounted,        \* the effect has started the three requests
    homeCalls,          \* the state of each request's promise chain
    failedCalls,        \* the effect's counter of failed requests
    featuredTools, homeTrendingTools, homeCategories,
    isLoadingFeatured, isLoadingTrending, isLoadingCategories,
    backendError        \* the banner's message, if any

home == << homeMounted, homeCalls, failedCalls, featuredTools,
           homeTrendingTools, homeCategories, isLoadingFeatured,
           isLoadingTrending, isLoadingCategories, backendError >>

\* The page of one category (CategoryPage).
VARIABLES
    categoryMounted,    \* the effect has run for the current page number
    categoryPage,       \* page, parsed from the address
    categoryFound,      \* category is not null
    toolsData,          \* the page of tools last received, if any
    categoryIsLoading, categoryError,
    categoryPending,    \* page numbers of the fetchData calls in flight
    pagination          \* the pagination block rendered, if any

categoryView == << categoryMounted, categoryPage, categoryFound, toolsData,
                   categoryIsLoading, categoryError, categoryPending,
                   pagination >>

\* The admin tools page (AdminToolsContent).
VARIABLES
    adminToolsMounted,
    adminTools,         \* tools: the ids of the rows
    adminToolsIsLoading,
    toolsFetching,      \* the number of fetchTools calls in flight
    processingId,
    categorizing,       \* tool ids of the auto-categorize requests in flight
    adminToolsToast     \* the last toast, if any

adminToolsView == << adminToolsMounted, adminTools, adminToolsIsLoading,
                     toolsFetching, processingId, categorizing,
                     adminToolsToast >>

vars ==
    << searchPage, client, trending, auth, wizard, adminLayout, home,
       categoryView, adminToolsView >>

\* What the handlers of one page leave alone besides the client: the state
\* of every other page.
elsewhere ==
    << trending, auth, wizard, adminLayout, home, categoryView,
       adminToolsView >>

outsideTrending ==
    << searchPage, auth, wizard, adminLayout, home, categoryView,
       adminToolsView >>

outsideAuth ==
    << searchPage, trending, wizard, adminLayout, home, categoryView,
       adminToolsView >>

outsideWizard ==
    << searchPage, trending, auth, adminLayout, home, categoryView,
       adminToolsView >>

outsideAdminLayout ==
    << searchPage, trending, auth, wizard, home, categoryView,
       adminToolsView >>

outsideHome ==
    << searchPage, trending, auth, wizard, adminLayout, categoryView,
       adminToolsView >>

outsideCategoryView ==
    << searchPage, trending, auth, wizard, adminLayout, home, adminToolsView >>

outsideAdminToolsView ==
    << searchPage, trending, auth, wizard, adminLayout, home, categoryView >>

\* ------------------------------------------------------------- helpers
\* String.prototype.trim on a sequence of characters.
RECURSIVE TrimStart(_)
TrimStart(s) ==
    IF s # <<>> /\ Head(s) = " " THEN TrimStart(Tail(s)) ELSE s

RECURSIVE TrimEnd(_)
TrimEnd(s) ==
    IF s # <<>> /\ s[Len(s)] = " " THEN TrimEnd(SubSeq(s, 1, Len(s) - 1)) ELSE s

trim(s) == TrimEnd(TrimStart(s))

\* encodeURIComponent, character by character.
encodeURIComponent(s) ==
    [ i \in 1..Len(s) |-> IF s[i] = " " THEN "%20" ELSE s[i] ]

\* URLSearchParams.get after the router decoded the address.
decodeURIComponent(s) ==
    [ i \in 1..Len(s) |-> IF s[i] = "%20" THEN " " ELSE s[i] ]

\* prev.filter((p) => p !== pricing)
RECURSIVE filterOut(_, _)
filterOut(s, x) ==
    IF s = <<>> THEN <<>>
    ELSE IF Head(s) = x THEN filterOut(Tail(s), x)
         ELSE << Head(s) >> \o filterOut(Tail(s), x)

RemoveAt(s, i) == SubSeq(s, 1, i - 1) \o SubSeq(s, i + 1, Len(s))

searchTools_firstTier(params) ==
    [ q           |-> << params.q >>,
      page        |-> << IF params.page = 0 THEN 1 ELSE params.page >>,
      limit       |-> << IF params.limit = 0 THEN 20 ELSE params.limit >>,
      search_type |-> << "hybrid" >>,
      category_id |-> IF params.category_id # Null THEN params.category_id ELSE <<>>,
      min_rating  |-> IF params.min_rating # Null THEN params.min_rating ELSE <<>>,
      pricing     |-> IF params.pricing # Null THEN << params.pricing[1] >> ELSE <<>> ]

\* ApiClient.searchTools: the URLSearchParams it builds, as the occurrences
\* of each parameter name in the order they were appended.
searchTools(params) ==
    [ q           |-> << params.q >>,
      page        |-> << IF params.page = 0 THEN 1 ELSE params.page >>,
      limit       |-> << IF params.limit = 0 THEN 20 ELSE params.limit >>,
      search_type |-> << "hybrid" >>,
      category_id |-> IF params.category_id # Null THEN params.category_id ELSE <<>>,
      min_rating  |-> IF params.min_rating # Null THEN params.min_rating ELSE <<>>,
      pricing     |-> IF params.pricing # Null THEN params.pricing ELSE <<>> ]

\* The search effect ran without issuing a request, or has not run.
NoRequest == [ q |-> <<>>, page |-> <<>>, limit |-> <<>>, search_type |-> <<>>,
               category_id |-> <<>>, min_rating |-> <<>>, pricing |-> <<>> ]

\* The operation that acted last.  For the first render arg is the q parameter
\* of the address the page was opened with; for the category radio arg is the id clicked
\* and pre the selection before the click, followed by the selection before
\* the previous click when that was on the same id; for a pricing checkbox
\* arg is the tier and pre the tiers selected before; for a response arg
\* tells whether the request it answers was issued by Load More.
Op(name) == [ op |-> name, arg |-> Null, pre |-> Null ]

Superseded_cancelled(restart) == IF restart THEN <<>> ELSE inflight

\* The requests still awaiting a response once a newer render's effect has
\* run: after a change of query or filters none of them is fresh any more.
Superseded(restart) ==
    [ i \in 1..Len(inflight) |->
        [ inflight[i] EXCEPT !.fresh = inflight[i].fresh /\ ~restart ] ]

\* The body of the search effect, run for a render with the given state.
\* `restart` tells that the render follows a change of query or filters and
\* `more` that it follows a click on Load More; `list` is the render's tools.
search(q, p, cat, pricing, rating, list, restart, more) ==
    IF trim(q) = <<>>
    THEN /\ tools' = <<>>
         /\ isLoading' = FALSE
         /\ inflight' = Superseded(restart)
         /\ lastRequest' = NoRequest
         /\ latest' = latest
         /\ fetched' = IF restart \/ p = 1 THEN <<>> ELSE fetched
    ELSE /\ isLoading' = TRUE
         /\ tools' = tools
         /\ lastRequest' = searchTools(
                [ q |-> q, page |-> p, limit |-> 20,
                  category_id |-> IF cat # Null THEN cat ELSE Null,
                  pricing |-> IF Len(pricing) > 0 THEN pricing ELSE Null,
                  min_rating |-> IF rating # Null THEN rating ELSE Null ])
         /\ inflight' = Append(Superseded(restart),
                [ page |-> p, tools |-> list,
                  fresh |-> TRUE, more |-> more, held |-> tools ])
         /\ latest' = "pending"
         /\ fetched' = IF restart \/ p = 1 THEN <<>> ELSE fetched

useEffectSearch_always(q, p, cat, pricing, rating, newArray, restart, more) ==
    search(q, p, cat, pricing, rating, tools, restart, more)

\* useEffect(..., [query, page, selectedCategory, selectedPricing, minRating]):
\* the effect runs again when a dependency differs from the previous render's.
\* selectedPricing is an array and is compared by identity.
useEffectSearch(q, p, cat, pricing, rating, newArray, restart, more) ==
    IF \/ << q, p, cat, rating >> # << query, page, selectedCategory, minRating >>
       \/ newArray
    THEN search(q, p, cat, pricing, rating, tools, restart, more)
    ELSE UNCHANGED << tools, isLoading, inflight, lastRequest, latest,
                      fetched >>

\* ApiClient's response interceptor on a rejected request.  status is the
\* response's status, or Null when the request got no response.  In the
\* browser window is defined, so the stored token is removed and the window
\* is sent to the login page; the rejection is passed on to the caller.
responseRejected(status) ==
    IF status = Some(401)
    THEN /\ token' = Null
         /\ localStorageToken' = Null
         /\ locationHref' = Some("/login")
    ELSE UNCHANGED client

\* ------------------------------------------------------------- actions
\* An assignment to window.location.href replaces the document: every action
\* is one of the page's handlers and none runs once locationHref is set.
\* The first commit: both effects run.
Mount ==
    /\ locationHref = Null
    /\ ~mounted
    /\ mounted' = TRUE
    /\ categoriesPending' = TRUE
    /\ search(query, page, selectedCategory, selectedPricing, minRating, tools,
              TRUE, FALSE)
    /\ lastOp' = Op("mount")
    /\ routerPush' = Null
    /\ UNCHANGED client
    /\ UNCHANGED elsewhere
    /\ oddToggles' = oddToggles
    /\ UNCHANGED << query, categories, total, page, hasMore, selectedCategory,
                    selectedPricing, minRating >>

\* api.getCategories resolved with the list cats.
fetchCategoriesSuccess(cats) ==
    /\ locationHref = Null
    /\ categoriesPending
    /\ categoriesPending' = FALSE
    /\ categories' = cats
    /\ lastOp' = Op("fetchCategoriesSuccess")
    /\ routerPush' = Null
    /\ UNCHANGED client
    /\ UNCHANGED elsewhere
    /\ UNCHANGED << latest, oddToggles >>
    /\ UNCHANGED << mounted, query, tools, isLoading, total, page, hasMore,
                    selectedCategory, selectedPricing, minRating, inflight, lastRequest, fetched >>

\* api.getCategories rejected with the given status.
fetchCategoriesFail(status) ==
    /\ locationHref = Null
    /\ categoriesPending
    /\ categoriesPending' = FALSE
    /\ responseRejected(status)
    /\ UNCHANGED elsewhere
    /\ lastOp' = Op("fetchCategoriesFail")
    /\ routerPush' = Null
    /\ UNCHANGED << latest, oddToggles >>
    /\ UNCHANGED << mounted, query, tools, categories, isLoading, total, page,
                    hasMore, selectedCategory, selectedPricing, minRating,
                    inflight, lastRequest, fetched >>

\* The search input's onChange.
setQuery(text) ==
    /\ locationHref = Null
    /\ mounted
    /\ text # query
    /\ query' = text
    /\ useEffectSearch(text, page, selectedCategory, selectedPricing, minRating,
                       FALSE, TRUE, FALSE)
    /\ lastOp' = Op("setQuery")
    /\ routerPush' = Null
    /\ UNCHANGED client
    /\ UNCHANGED elsewhere
    /\ oddToggles' = oddToggles
    /\ UNCHANGED << mounted, categories, total, page, hasMore, selectedCategory,
                    selectedPricing, minRating, categoriesPending >>

searchUrl_withPage(q) ==
    << "/search?q=" >> \o encodeURIComponent(q) \o << "&page=", "1" >>

\* `/search?q=${encodeURIComponent(query)}`
searchUrl(q) == << "/search?q=" >> \o encodeURIComponent(q)

\* The search form's onSubmit.
handleSearch ==
    /\ locationHref = Null
    /\ mounted
    /\ page' = 1
    /\ routerPush' = Some(searchUrl(query))
    /\ UNCHANGED client
    /\ UNCHANGED elsewhere
    /\ useEffectSearch(query, 1, selectedCategory, selectedPricing, minRating,
                       FALSE, FALSE, FALSE)
    /\ lastOp' = Op("handleSearch")
    /\ oddToggles' = oddToggles
    /\ UNCHANGED << mounted, query, categories, total, hasMore, selectedCategory,
                    selectedPricing, minRating, categoriesPending >>

toggledCategory_replace(current, id) == Some(id)

\* selectedCategory === category.id ? null : category.id
toggledCategory(current, id) ==
    IF current = Some(id) THEN Null ELSE Some(id)

\* A category radio's onChange.
selectCategory(id) ==
    /\ locationHref = Null
    /\ mounted
    /\ id \in Range(categories)
    /\ LET cat == toggledCategory(selectedCategory, id) IN
        /\ selectedCategory' = cat
        /\ page' = 1
        /\ useEffectSearch(query, 1, cat, selectedPricing, minRating,
                           FALSE, TRUE, FALSE)
        /\ lastOp' = [ op |-> "selectCategory", arg |-> id,
                       pre |-> IF lastOp.op = "selectCategory" /\ lastOp.arg = id
                               THEN << selectedCategory, lastOp.pre[1] >>
                               ELSE << selectedCategory >> ]
    /\ routerPush' = Null
    /\ UNCHANGED client
    /\ UNCHANGED elsewhere
    /\ oddToggles' = oddToggles
    /\ UNCHANGED << mounted, query, categories, total, hasMore, selectedPricing,
                    minRating, categoriesPending >>

toggledPricing_append(prev, pricing) == prev \o << pricing >>

\* prev.includes(pricing) ? prev.filter((p) => p !== pricing) : [...prev, pricing]
toggledPricing(prev, pricing) ==
    IF pricing \in Range(prev)
    THEN filterOut(prev, pricing)
    ELSE prev \o << pricing >>

\* A pricing checkbox's onChange, and the X of a pricing chip.
togglePricing(pricing) ==
    /\ locationHref = Null
    /\ mounted
    /\ pricing \in Range(pricingOptions)
    /\ LET next == toggledPricing(selectedPricing, pricing) IN
        /\ selectedPricing' = next
        /\ page' = 1
        /\ useEffectSearch(query, 1, selectedCategory, next, minRating,
                           TRUE, TRUE, FALSE)
        /\ lastOp' = [ op |-> "togglePricing", arg |-> pricing,
                       pre |-> selectedPricing ]
    /\ routerPush' = Null
    /\ UNCHANGED client
    /\ UNCHANGED elsewhere
    /\ oddToggles' = (oddToggles \ { pricing }) \cup ({ pricing } \ oddToggles)
    /\ UNCHANGED << mounted, query, categories, total, hasMore, selectedCategory,
                    minRating, categoriesPending >>

toggledRating_replace(current, rating) == Some(rating)

\* minRating === rating ? null : rating
toggledRating(current, rating) ==
    IF current = Some(rating) THEN Null ELSE Some(rating)

\* A rating radio's onChange.
setMinRating(rating) ==
    /\ locationHref = Null
    /\ mounted
    /\ rating \in Range(ratingOptions)
    /\ LET next == toggledRating(minRating, rating) IN
        /\ minRating' = next
        /\ page' = 1
        /\ useEffectSearch(query, 1, selectedCategory, selectedPricing, next,
                           FALSE, TRUE, FALSE)
        /\ lastOp' = Op("setMinRating")
    /\ routerPush' = Null
    /\ UNCHANGED client
    /\ UNCHANGED elsewhere
    /\ oddToggles' = oddToggles
    /\ UNCHANGED << mounted, query, categories, total, hasMore, selectedCategory,
                    selectedPricing, categoriesPending >>

cleared_keepsRating ==
    [ selectedCategory |-> Null, selectedPricing |-> <<>>,
      minRating |-> minRating, page |-> 1 ]

\* The state updates clearFilters queues, committed in one render.
cleared ==
    [ selectedCategory |-> Null, selectedPricing |-> <<>>,
      minRating |-> Null, page |-> 1 ]

\* The Clear all button, shown while a filter is set.
clearFilters ==
    /\ locationHref = Null
    /\ mounted
    /\ selectedCategory # Null \/ Len(selectedPricing) > 0 \/ minRating # Null
    /\ selectedCategory' = cleared.selectedCategory
    /\ selectedPricing' = cleared.selectedPricing
    /\ minRating' = cleared.minRating
    /\ page' = cleared.page
    /\ useEffectSearch(query, cleared.page, cleared.selectedCategory,
                       cleared.selectedPricing, cleared.minRating,
                       TRUE, TRUE, FALSE)
    /\ lastOp' = Op("clearFilters")
    /\ routerPush' = Null
    /\ UNCHANGED client
    /\ UNCHANGED elsewhere
    /\ oddToggles' = {}
    /\ UNCHANGED << mounted, query, categories, total, hasMore, categoriesPending >>

\* The X of the category chip, shown while a category is selected.
removeCategoryChip ==
    /\ locationHref = Null
    /\ mounted
    /\ selectedCategory # Null
    /\ selectedCategory' = Null
    /\ useEffectSearch(query, page, Null, selectedPricing, minRating,
                       FALSE, TRUE, FALSE)
    /\ lastOp' = Op("removeCategoryChip")
    /\ routerPush' = Null
    /\ UNCHANGED client
    /\ UNCHANGED elsewhere
    /\ oddToggles' = oddToggles
    /\ UNCHANGED << mounted, query, categories, total, page, hasMore,
                    selectedPricing, minRating, categoriesPending >>

\* The X of the rating chip, shown while a minimum rating is selected.
removeRatingChip ==
    /\ locationHref = Null
    /\ mounted
    /\ minRating # Null
    /\ minRating' = Null
    /\ useEffectSearch(query, page, selectedCategory, selectedPricing, Null,
                       FALSE, TRUE, FALSE)
    /\ lastOp' = Op("removeRatingChip")
    /\ routerPush' = Null
    /\ UNCHANGED client
    /\ UNCHANGED elsewhere
    /\ oddToggles' = oddToggles
    /\ UNCHANGED << mounted, query, categories, total, page, hasMore,
                    selectedCategory, selectedPricing, categoriesPending >>

nextPage_skip(p) == p + 2

\* setPage((p) => p + 1)
nextPage(p) == p + 1

\* The Load More button, rendered while hasMore && !isLoading.
loadNextPage ==
    /\ locationHref = Null
    /\ mounted
    /\ hasMore /\ ~isLoading
    /\ page < MaxPage
    /\ page' = nextPage(page)
    /\ useEffectSearch(query, nextPage(page), selectedCategory, selectedPricing,
                       minRating, FALSE, FALSE, TRUE)
    /\ lastOp' = Op("loadNextPage")
    /\ routerPush' = Null
    /\ UNCHANGED client
    /\ UNCHANGED elsewhere
    /\ oddToggles' = oddToggles
    /\ UNCHANGED << mounted, query, categories, total, hasMore, selectedCategory,
                    selectedPricing, minRating, categoriesPending >>

merged_live(request, result) ==
    IF page = 1 THEN result.items ELSE tools \o result.items

\* The list a successful response leaves: the closure's page and tools decide.
merged(request, result) ==
    IF request.page = 1 THEN result.items ELSE request.tools \o result.items

\* api.searchTools resolved: the rest of search() after the await.
searchSuccess(i, result) ==
    /\ locationHref = Null
    /\ i \in 1..Len(inflight)
    /\ Len(merged(inflight[i], result)) <= MaxTools
    /\ tools' = merged(inflight[i], result)
    /\ total' = result.total
    /\ hasMore' = result.has_next
    /\ isLoading' = FALSE
    /\ inflight' = RemoveAt(inflight, i)
    /\ fetched' = IF inflight[i].fresh THEN fetched \o result.items ELSE fetched
    /\ lastOp' = [ op |-> "searchSuccess", arg |-> inflight[i].more, pre |-> Null ]
    /\ routerPush' = Null
    /\ UNCHANGED client
    /\ UNCHANGED elsewhere
    /\ latest' = IF latest = "pending" /\ i = Len(inflight) THEN "applied" ELSE latest
    /\ oddToggles' = oddToggles
    /\ UNCHANGED << mounted, query, categories, page, selectedCategory,
                    selectedPricing, minRating, categoriesPending, lastRequest >>

caught_cleared == [ tools |-> <<>>, total |-> 0, hasMore |-> FALSE ]

\* The results the catch branch leaves: it only logs the error.
caught == [ tools |-> tools, total |-> total, hasMore |-> hasMore ]

searchFailed_keepsLoading(i, status) ==
    /\ locationHref = Null
    /\ i \in 1..Len(inflight)
    /\ responseRejected(status)
    /\ UNCHANGED elsewhere
    /\ inflight' = RemoveAt(inflight, i)
    /\ lastOp' = Op("searchFailed")
    /\ routerPush' = Null
    /\ latest' = IF latest = "pending" /\ i = Len(inflight) THEN "failed" ELSE latest
    /\ UNCHANGED << mounted, query, tools, categories, isLoading, total, page,
                    hasMore, selectedCategory, selectedPricing, minRating,
                    categoriesPending, lastRequest, oddToggles, fetched >>

\* api.searchTools rejected with the given status: the interceptor, then
\* catch, then finally.
searchFailed(i, status) ==
    /\ locationHref = Null
    /\ i \in 1..Len(inflight)
    /\ responseRejected(status)
    /\ UNCHANGED elsewhere
    /\ tools' = caught.tools
    /\ total' = caught.total
    /\ hasMore' = caught.hasMore
    /\ isLoading' = FALSE
    /\ inflight' = RemoveAt(inflight, i)
    /\ lastOp' = Op("searchFailed")
    /\ routerPush' = Null
    /\ latest' = IF latest = "pending" /\ i = Len(inflight) THEN "failed" ELSE latest
    /\ oddToggles' = oddToggles
    /\ UNCHANGED << mounted, query, categories, page,
                    selectedCategory, selectedPricing, minRating,
                    categoriesPending, lastRequest, fetched >>

\* ------------------------------------------------------------- trending page
\* The items the backend returns for page p of the trending ranking.
pageItems(p) == << p >>

\* fetchTrendingTools up to its await, run by the effect of a render whose
\* page is p.
fetchTrendingTools(p) ==
    /\ trendingIsLoading' = TRUE
    /\ trendingInflight' = Some(p)

\* The first commit of the trending page: the effect runs.
TrendingMount ==
    /\ locationHref = Null
    /\ ~trendingMounted
    /\ trendingMounted' = TRUE
    /\ fetchTrendingTools(trendingPage)
    /\ UNCHANGED << trendingTools, trendingPage, trendingHasMore >>
    /\ UNCHANGED client
    /\ UNCHANGED outsideTrending

\* The Load More Tools button, rendered while hasMore && !isLoading.
TrendingLoadMore ==
    /\ locationHref = Null
    /\ trendingMounted
    /\ trendingHasMore /\ ~trendingIsLoading
    /\ trendingPage < MaxTrendingPage
    /\ trendingPage' = nextPage(trendingPage)
    /\ fetchTrendingTools(nextPage(trendingPage))
    /\ UNCHANGED << trendingMounted, trendingTools, trendingHasMore >>
    /\ UNCHANGED client
    /\ UNCHANGED outsideTrending

\* api.getTools resolved: the rest of fetchTrendingTools after the await.
trendingSuccess(has_next) ==
    /\ locationHref = Null
    /\ trendingInflight # Null
    /\ LET p == trendingInflight[1] IN
          trendingTools' = IF p = 1 THEN pageItems(p)
                           ELSE trendingTools \o pageItems(p)
    /\ trendingHasMore' = has_next
    /\ trendingIsLoading' = FALSE
    /\ trendingInflight' = Null
    /\ UNCHANGED << trendingMounted, trendingPage >>
    /\ UNCHANGED client
    /\ UNCHANGED outsideTrending

\* api.getTools rejected with the given status: the interceptor, then catch,
\* then finally.
trendingFailed(status) ==
    /\ locationHref = Null
    /\ trendingInflight # Null
    /\ responseRejected(status)
    /\ trendingIsLoading' = FALSE
    /\ trendingInflight' = Null
    /\ UNCHANGED << trendingMounted, trendingTools, trendingPage, trendingHasMore >>
    /\ UNCHANGED outsideTrending

\* The trending page as first rendered, before its effect has run.
TrendingMounting ==
    /\ trendingMounted = FALSE
    /\ trendingTools = <<>>
    /\ trendingIsLoading = TRUE
    /\ trendingPage = 1
    /\ trendingHasMore = TRUE
    /\ trendingInflight = Null

\* ------------------------------------------------------------- auth calls
\* A token is truthy: neither null nor the empty string.
truthy(t) == t # Null /\ t[1] # ""

\* ApiClient.setToken: this.token = token; the item is stored if (token) and
\* removed otherwise.
setToken(t) ==
    /\ token' = t
    /\ localStorageToken' = IF truthy(t) THEN t ELSE Null

\* The request interceptor: Authorization is set if (this.token).
authorization ==
    IF truthy(token) THEN Some(<< "Bearer", token[1] >>) ELSE Null

\* A call of setToken from the application.
callSetToken(t) ==
    /\ locationHref = Null
    /\ setToken(t)
    /\ UNCHANGED << locationHref, authPending >>
    /\ UNCHANGED outsideAuth

\* ApiClient.logout.
logout ==
    /\ locationHref = Null
    /\ setToken(Null)
    /\ UNCHANGED << locationHref, authPending >>
    /\ UNCHANGED outsideAuth

\* register, login and deleteAccount up to their await: the request is sent
\* with the header the interceptor gives it.
authRequest(call) ==
    /\ locationHref = Null
    /\ Len(authPending) < MaxAuthPending
    /\ authPending' = Append(authPending,
                             [ call |-> call, authorization |-> authorization ])
    /\ UNCHANGED client
    /\ UNCHANGED outsideAuth

\* The request answered with 2xx: register and login store the access token
\* of the response, deleteAccount logs out.
authSuccess(i, access_token) ==
    /\ locationHref = Null
    /\ i \in 1..Len(authPending)
    /\ IF authPending[i].call = "deleteAccount"
       THEN setToken(Null)
       ELSE setToken(access_token)
    /\ authPending' = RemoveAt(authPending, i)
    /\ UNCHANGED locationHref
    /\ UNCHANGED outsideAuth

\* The request rejected with the given status: the interceptor, then the
\* rejection leaves the method before it touches the token.
authFailed(i, status) ==
    /\ locationHref = Null
    /\ i \in 1..Len(authPending)
    /\ responseRejected(status)
    /\ authPending' = RemoveAt(authPending, i)
    /\ UNCHANGED outsideAuth

\* No auth call has been made.
AuthIdle == authPending = <<>>

\* ------------------------------------------------------------- submit wizard
\* Every handler below belongs to the rendered page: none runs after the
\* router was told to leave it or the window was sent to the login page.
wizardOpen == wizardPush = Null /\ locationHref = Null

\* A Button given isLoading does not take clicks, and a form whose submit
\* button does not take clicks is not submitted from the keyboard either.
takesClicks(loading) == ~loading

\* The URL input's onChange, rendered in step 'url'.
setUrl(text) ==
    /\ wizardOpen
    /\ step = "url"
    /\ text # url
    /\ url' = text
    /\ UNCHANGED << step, isExtracting, isSubmitting, extractedData,
                    submittedToolSlug, isAuthenticated, extractPending,
                    submitPending, toast, wizardPush >>
    /\ UNCHANGED client
    /\ UNCHANGED outsideWizard

\* The URL form's onSubmit, up to the await.
handleExtract ==
    /\ wizardOpen
    /\ step = "url"
    /\ takesClicks(isExtracting)
    /\ IF trim(url) = <<>>
       THEN /\ toast' = Some("Please enter a URL")
            /\ UNCHANGED << isExtracting, extractPending, wizardPush >>
       ELSE IF ~isAuthenticated
       THEN /\ toast' = Some("Please log in to submit a tool")
            /\ wizardPush' = Some("/login?redirect=/submit")
            /\ UNCHANGED << isExtracting, extractPending >>
       ELSE /\ isExtracting' = TRUE
            /\ extractPending' = Some(url)
            /\ UNCHANGED << toast, wizardPush >>
    /\ UNCHANGED << step, url, isSubmitting, extractedData, submittedToolSlug,
                    isAuthenticated, submitPending >>
    /\ UNCHANGED client
    /\ UNCHANGED outsideWizard

\* api.extractToolFromUrl resolved: the rest of handleExtract.
extractSuccess ==
    /\ wizardOpen
    /\ extractPending # Null
    /\ extractedData' = extractPending
    /\ step' = "preview"
    /\ toast' = Some("Data extracted successfully!")
    /\ isExtracting' = FALSE
    /\ extractPending' = Null
    /\ UNCHANGED << url, isSubmitting, submittedToolSlug, isAuthenticated,
                    submitPending, wizardPush >>
    /\ UNCHANGED client
    /\ UNCHANGED outsideWizard

\* api.extractToolFromUrl rejected with the given status.
extractFailed(status) ==
    /\ wizardOpen
    /\ extractPending # Null
    /\ responseRejected(status)
    /\ toast' = Some("Failed to extract data from URL. Please try again.")
    /\ isExtracting' = FALSE
    /\ extractPending' = Null
    /\ UNCHANGED << step, url, isSubmitting, extractedData, submittedToolSlug,
                    isAuthenticated, submitPending, wizardPush >>
    /\ UNCHANGED outsideWizard

\* The Edit Information button of the preview.
editInformation ==
    /\ wizardOpen
    /\ step = "preview"
    /\ step' = "url"
    /\ UNCHANGED << url, isExtracting, isSubmitting, extractedData,
                    submittedToolSlug, isAuthenticated, extractPending,
                    submitPending, toast, wizardPush >>
    /\ UNCHANGED client
    /\ UNCHANGED outsideWizard

\* The Submit Tool button of the preview, up to the await: the request is
\* made for the url of the render that was clicked.
handleSubmit ==
    /\ wizardOpen
    /\ step = "preview"
    /\ takesClicks(isSubmitting)
    /\ extractedData # Null
    /\ isSubmitting' = TRUE
    /\ submitPending' = Some(url)
    /\ UNCHANGED << step, url, isExtracting, extractedData, submittedToolSlug,
                    isAuthenticated, extractPending, toast, wizardPush >>
    /\ UNCHANGED client
    /\ UNCHANGED outsideWizard

\* api.submitToolFromUrl resolved with a tool of the given slug.
submitSuccess(slug) ==
    /\ wizardOpen
    /\ submitPending # Null
    /\ submittedToolSlug' = Some(slug)
    /\ step' = "success"
    /\ toast' = Some("Tool submitted successfully!")
    /\ isSubmitting' = FALSE
    /\ submitPending' = Null
    /\ UNCHANGED << url, isExtracting, extractedData, isAuthenticated,
                    extractPending, wizardPush >>
    /\ UNCHANGED client
    /\ UNCHANGED outsideWizard

\* api.submitToolFromUrl rejected with the given status.
submitFailed(status) ==
    /\ wizardOpen
    /\ submitPending # Null
    /\ responseRejected(status)
    /\ toast' = Some("Failed to submit tool. Please try again.")
    /\ isSubmitting' = FALSE
    /\ submitPending' = Null
    /\ UNCHANGED << step, url, isExtracting, extractedData, submittedToolSlug,
                    isAuthenticated, extractPending, wizardPush >>
    /\ UNCHANGED outsideWizard

\* View Your Listing and Back to Home, rendered in step 'success'.
leaveWizard ==
    /\ wizardOpen
    /\ step = "success"
    /\ wizardPush' \in { Some("/") } \cup
                        (IF submittedToolSlug # Null THEN { Some("/tools/slug") } ELSE {})
    /\ UNCHANGED << step, url, isExtracting, isSubmitting, extractedData,
                    submittedToolSlug, isAuthenticated, extractPending,
                    submitPending, toast >>
    /\ UNCHANGED client
    /\ UNCHANGED outsideWizard

\* The wizard as first rendered for a visitor who is or is not signed in.
WizardMounting(authenticated) ==
    /\ step = "url"
    /\ url = <<>>
    /\ isExtracting = FALSE
    /\ isSubmitting = FALSE
    /\ extractedData = Null
    /\ submittedToolSlug = Null
    /\ isAuthenticated = authenticated
    /\ extractPending = Null
    /\ submitPending = Null
    /\ toast = Null
    /\ wizardPush = Null

\* ------------------------------------------------------------- admin layout
\* The links of the sidebar.
navItems ==
    << "/admin", "/admin/tools", "/admin/users", "/admin/categories",
       "/admin/ranking", "/admin/settings" >>

\* user?.role !== 'admin' && user?.role !== 'super_admin'
notAdmin(role) == role # Some("admin") /\ role # Some("super_admin")

\* The guard effect, run for a render with the given values of useAuth and
\* of the path; it reads the stored token.
adminGuard(loading, authenticated, role, path) ==
    IF loading
    THEN UNCHANGED << adminPush, adminToast >>
    ELSE IF ~authenticated
    THEN /\ adminPush' = IF ~truthy(localStorageToken)
                         THEN Some(<< "/login?redirect=", path >>)
                         ELSE adminPush
         /\ adminToast' = adminToast
    ELSE IF notAdmin(role)
    THEN /\ adminPush' = Some(<< "/" >>)
         /\ adminToast' = Some("Admin access required")
    ELSE UNCHANGED << adminPush, adminToast >>

\* What the layout renders: the spinner while the auth check is loading and
\* the sidebar with the page's content otherwise.
adminRender == IF authIsLoading THEN "spinner" ELSE "children"

\* The layout is rendered: the guard has not told the router to leave.
adminOpen == adminPush = Null /\ locationHref = Null

\* The first commit of the layout: the guard runs.
AdminMount ==
    /\ adminOpen
    /\ ~adminMounted
    /\ adminMounted' = TRUE
    /\ adminGuard(authIsLoading, authIsAuthenticated, userRole, pathname)
    /\ UNCHANGED << pathname, authIsLoading, authIsAuthenticated, userRole >>
    /\ UNCHANGED client
    /\ UNCHANGED outsideAdminLayout

\* useAuth reports new values: the layout renders again and the guard runs.
\* There is a user exactly when the visitor is authenticated.
useAuthChanged(loading, authenticated, role) ==
    /\ adminOpen
    /\ adminMounted
    /\ authenticated <=> role # Null
    /\ << loading, authenticated, role >>
           # << authIsLoading, authIsAuthenticated, userRole >>
    /\ authIsLoading' = loading
    /\ authIsAuthenticated' = authenticated
    /\ userRole' = role
    /\ adminGuard(loading, authenticated, role, pathname)
    /\ UNCHANGED << adminMounted, pathname >>
    /\ UNCHANGED client
    /\ UNCHANGED outsideAdminLayout

\* A click on a link of the sidebar, rendered once the auth check is over:
\* the path changes and the guard runs.
navigate(href) ==
    /\ adminOpen
    /\ adminMounted
    /\ adminRender = "children"
    /\ href \in Range(navItems)
    /\ href # pathname
    /\ pathname' = href
    /\ adminGuard(authIsLoading, authIsAuthenticated, userRole, href)
    /\ UNCHANGED << adminMounted, authIsLoading, authIsAuthenticated, userRole >>
    /\ UNCHANGED client
    /\ UNCHANGED outsideAdminLayout

\* The layout as first rendered at the given path while the auth check runs.
AdminMounting(path) ==
    /\ adminMounted = FALSE
    /\ pathname = path
    /\ authIsLoading = TRUE
    /\ authIsAuthenticated = FALSE
    /\ userRole = Null
    /\ adminPush = Null
    /\ adminToast = Null

\* ------------------------------------------------------------- home page
\* The three requests of the effect.
homeRequests == { "featured", "trending", "categories" }

totalCalls == 3

\* checkAllFailed with the banner shown at every failure.
checkAllFailed_any ==
    /\ failedCalls' = failedCalls + 1
    /\ backendError' = Some("Backend connection failed")

\* checkAllFailed: count the failure and show the banner at the last one.
checkAllFailed ==
    /\ failedCalls' = failedCalls + 1
    /\ backendError' = IF failedCalls + 1 = totalCalls
                        THEN Some("Backend connection failed")
                        ELSE backendError

\* Whether a request's chain rejects on an outcome of fetch: the network
\* failed (no response), the response is not ok, or, for the two requests
\* that read data.items, the body is null.
homeRejects(req, res) ==
    \/ res = Null
    \/ ~res[1].ok
    \/ req # "categories" /\ res[1].body = Null

\* data.items || [] for the two lists of tools, data || [] for categories.
homeData(req, body) ==
    IF req = "categories"
    THEN (IF body = Null THEN <<>> ELSE body[1])
    ELSE (IF body[1].items = Null THEN <<>> ELSE body[1].items[1])

\* .finally: the section of the request stops loading.
homeFinally(req) ==
    /\ isLoadingFeatured' = IF req = "featured" THEN FALSE ELSE isLoadingFeatured
    /\ isLoadingTrending' = IF req = "trending" THEN FALSE ELSE isLoadingTrending
    /\ isLoadingCategories' =
           IF req = "categories" THEN FALSE ELSE isLoadingCategories

\* The effect of the first commit starts the three requests.
HomeMount ==
    /\ ~homeMounted
    /\ homeMounted' = TRUE
    /\ homeCalls' = [req \in homeRequests |-> "pending"]
    /\ failedCalls' = 0
    /\ UNCHANGED << featuredTools, homeTrendingTools, homeCategories,
                    isLoadingFeatured, isLoadingTrending, isLoadingCategories,
                    backendError >>
    /\ UNCHANGED client
    /\ UNCHANGED outsideHome

\* A request's chain runs to its end on the outcome of its fetch.
homeSettled(req, res) ==
    /\ homeMounted
    /\ homeCalls[req] = "pending"
    /\ IF homeRejects(req, res)
       THEN /\ homeCalls' = [homeCalls EXCEPT ![req] = "rejected"]
            /\ checkAllFailed
            /\ UNCHANGED << featuredTools, homeTrendingTools, homeCategories >>
       ELSE /\ homeCalls' = [homeCalls EXCEPT ![req] = "fulfilled"]
            /\ featuredTools' = IF req = "featured"
                                 THEN homeData(req, res[1].body)
                                 ELSE featuredTools
            /\ homeTrendingTools' = IF req = "trending"
                                     THEN homeData(req, res[1].body)
                                     ELSE homeTrendingTools
            /\ homeCategories' = IF req = "categories"
                                  THEN homeData(req, res[1].body)
                                  ELSE homeCategories
            /\ backendError' = Null
            /\ failedCalls' = failedCalls
    /\ homeFinally(req)
    /\ homeMounted' = homeMounted
    /\ UNCHANGED client
    /\ UNCHANGED outsideHome

\* The home page as constructed.
HomeMounting ==
    /\ homeMounted = FALSE
    /\ homeCalls = [req \in homeRequests |-> "none"]
    /\ failedCalls = 0
    /\ featuredTools = <<>>
    /\ homeTrendingTools = <<>>
    /\ homeCategories = <<>>
    /\ isLoadingFeatured = TRUE
    /\ isLoadingTrending = TRUE
    /\ isLoadingCategories = TRUE
    /\ backendError = Null

\* ------------------------------------------------------------- category page
MaxCategoryPages == 9

pageSize == 20

maxButtons == 7

Min(a, b) == IF a <= b THEN a ELSE b

\* pageNum with the last window starting one page early.
pageNum_early(i, pages, current) ==
    IF pages <= maxButtons THEN i + 1
    ELSE IF current <= 4 THEN i + 1
    ELSE IF current >= pages - 3 THEN pages - 7 + i
    ELSE current - 3 + i

\* The number of the button of index i (from 0) of the window.
pageNum(i, pages, current) ==
    IF pages <= maxButtons THEN i + 1
    ELSE IF current <= 4 THEN i + 1
    ELSE IF current >= pages - 3 THEN pages - 6 + i
    ELSE current - 3 + i

\* Array.from({ length: Math.min(pages, 7) }, ...): the numbers of the
\* buttons, in order.
pageButtons(pages, current) ==
    [j \in 1..Min(pages, maxButtons) |-> pageNum(j - 1, pages, current)]

\* The pagination block of a render: nothing while loading, on an error,
\* without a category, without tools or with at most one page.
renderPagination(loading, error, found, data, current) ==
    IF loading \/ error # Null \/ ~found THEN Null
    ELSE IF data = Null THEN Null
    ELSE IF ~data[1].hasItems \/ ~(data[1].pages > 1) THEN Null
    ELSE Some([from |-> (current - 1) * pageSize + 1,
               to |-> Min(current * pageSize, data[1].total),
               of |-> data[1].total,
               buttons |-> pageButtons(data[1].pages, current),
               previous |-> data[1].has_prev,
               next |-> data[1].has_next])

\* The effect of a commit with a new page number: fetchData starts.
CategoryMount ==
    /\ locationHref = Null
    /\ ~categoryMounted
    /\ categoryMounted' = TRUE
    /\ categoryIsLoading' = TRUE
    /\ categoryPending' = Append(categoryPending, categoryPage)
    /\ pagination' = renderPagination(TRUE, categoryError, categoryFound,
                                      toolsData, categoryPage)
    /\ UNCHANGED << categoryPage, categoryFound, toolsData, categoryError >>
    /\ UNCHANGED client
    /\ UNCHANGED outsideCategoryView

\* The category and its page of tools arrive for the oldest call.
categoryLoaded(data) ==
    /\ locationHref = Null
    /\ categoryPending # <<>>
    /\ categoryPending' = Tail(categoryPending)
    /\ categoryFound' = TRUE
    /\ toolsData' = Some(data)
    /\ categoryIsLoading' = FALSE
    /\ pagination' = renderPagination(FALSE, categoryError, TRUE, Some(data),
                                      categoryPage)
    /\ UNCHANGED << categoryMounted, categoryPage, categoryError >>
    /\ UNCHANGED client
    /\ UNCHANGED outsideCategoryView

\* One of the two requests of the oldest call fails.
categoryFailed(status) ==
    /\ locationHref = Null
    /\ categoryPending # <<>>
    /\ categoryPending' = Tail(categoryPending)
    /\ categoryError' = Some("Category not found or failed to load.")
    /\ categoryIsLoading' = FALSE
    /\ pagination' = Null
    /\ UNCHANGED << categoryMounted, categoryPage, categoryFound, toolsData >>
    /\ responseRejected(status)
    /\ UNCHANGED outsideCategoryView

\* A click on a button of the pagination block: the router is sent to the
\* address of the new page, and the page renders with that page number.
handlePageChange(newPage) ==
    /\ locationHref = Null
    /\ pagination # Null
    /\ \/ newPage \in Range(pagination[1].buttons)
       \/ pagination[1].previous /\ newPage = categoryPage - 1
       \/ pagination[1].next /\ newPage = categoryPage + 1
    /\ newPage # categoryPage
    /\ categoryPage' = newPage
    /\ categoryMounted' = FALSE
    /\ pagination' = renderPagination(categoryIsLoading, categoryError,
                                      categoryFound, toolsData, newPage)
    /\ UNCHANGED << categoryFound, toolsData, categoryIsLoading, categoryError,
                    categoryPending >>
    /\ UNCHANGED client
    /\ UNCHANGED outsideCategoryView

\* The page as constructed for an address with the given page number.
CategoryMounting(current) ==
    /\ categoryMounted = FALSE
    /\ categoryPage = current
    /\ categoryFound = FALSE
    /\ toolsData = Null
    /\ categoryIsLoading = TRUE
    /\ categoryError = Null
    /\ categoryPending = <<>>
    /\ pagination = Null

\* ------------------------------------------------------------- admin tools
MaxCategorizing == 2

MaxToolsFetching == 2

\* fetchTools as far as its await: the table shows "Loading...".
fetchTools ==
    /\ adminToolsIsLoading' = TRUE
    /\ toolsFetching' = toolsFetching + 1

\* The auto-categorize button of a row is rendered and takes clicks.
autoCategorizeEnabled(toolId) ==
    /\ ~adminToolsIsLoading
    /\ toolId \in Range(adminTools)
    /\ processingId # Some(toolId)

\* The effect of the first commit.
AdminToolsMount ==
    /\ locationHref = Null
    /\ ~adminToolsMounted
    /\ adminToolsMounted' = TRUE
    /\ fetchTools
    /\ UNCHANGED << adminTools, processingId, categorizing, adminToolsToast >>
    /\ UNCHANGED client
    /\ UNCHANGED outsideAdminToolsView

\* A fetchTools call receives its page of tools.
toolsFetched(items) ==
    /\ locationHref = Null
    /\ toolsFetching > 0
    /\ toolsFetching' = toolsFetching - 1
    /\ adminTools' = items
    /\ adminToolsIsLoading' = FALSE
    /\ UNCHANGED << adminToolsMounted, processingId, categorizing,
                    adminToolsToast >>
    /\ UNCHANGED client
    /\ UNCHANGED outsideAdminToolsView

\* A fetchTools call fails.
toolsFetchFailed(status) ==
    /\ locationHref = Null
    /\ toolsFetching > 0
    /\ toolsFetching' = toolsFetching - 1
    /\ adminToolsToast' = Some("Failed to load tools")
    /\ adminToolsIsLoading' = FALSE
    /\ UNCHANGED << adminToolsMounted, adminTools, processingId, categorizing >>
    /\ responseRejected(status)
    /\ UNCHANGED outsideAdminToolsView

\* handleAutoCategorize up to its await, on a click of a row's button.
handleAutoCategorize(toolId) ==
    /\ locationHref = Null
    /\ autoCategorizeEnabled(toolId)
    /\ Len(categorizing) < MaxCategorizing
    /\ processingId' = Some(toolId)
    /\ categorizing' = Append(categorizing, toolId)
    /\ UNCHANGED << adminToolsMounted, adminTools, adminToolsIsLoading,
                    toolsFetching, adminToolsToast >>
    /\ UNCHANGED client
    /\ UNCHANGED outsideAdminToolsView

\* The auto-categorize request at position i succeeds: the rest of the try
\* block and the finally block.
autoCategorizeSuccess(i) ==
    /\ locationHref = Null
    /\ i \in 1..Len(categorizing)
    /\ toolsFetching < MaxToolsFetching
    /\ categorizing' = RemoveAt(categorizing, i)
    /\ adminToolsToast' = Some("Categorized as")
    /\ fetchTools
    /\ processingId' = Null
    /\ UNCHANGED << adminToolsMounted, adminTools >>
    /\ UNCHANGED client
    /\ UNCHANGED outsideAdminToolsView

\* The auto-categorize request at position i fails: the catch block and the
\* finally block.
autoCategorizeFailed(i, status) ==
    /\ locationHref = Null
    /\ i \in 1..Len(categorizing)
    /\ categorizing' = RemoveAt(categorizing, i)
    /\ adminToolsToast' = Some("AI categorization failed")
    /\ processingId' = Null
    /\ UNCHANGED << adminToolsMounted, adminTools, adminToolsIsLoading,
                    toolsFetching >>
    /\ responseRejected(status)
    /\ UNCHANGED outsideAdminToolsView

\* The page as constructed.
AdminToolsMounting ==
    /\ adminToolsMounted = FALSE
    /\ adminTools = <<>>
    /\ adminToolsIsLoading = TRUE
    /\ toolsFetching = 0
    /\ processingId = Null
    /\ categorizing = <<>>
    /\ adminToolsToast = Null

\* ------------------------------------------------------------- specification
initialQuery_blank(q) == <<>>

\* searchParams.get('q') || ''
initialQuery(q) == IF q = Null THEN <<>> ELSE decodeURIComponent(q[1])

\* The component as first rendered with the address's q parameter, before its
\* effects have run, and the API client as constructed with the stored token.
Mounting(q, stored) ==
    /\ mounted = FALSE
    /\ query = initialQuery(q)
    /\ tools = <<>>
    /\ categories = <<>>
    /\ isLoading = TRUE
    /\ total = 0
    /\ page = 1
    /\ hasMore = FALSE
    /\ selectedCategory = Null
    /\ selectedPricing = <<>>
    /\ minRating = Null
    /\ categoriesPending = FALSE
    /\ inflight = <<>>
    /\ routerPush = Null
    /\ lastRequest = NoRequest
    /\ lastOp = [ op |-> "render", arg |-> q, pre |-> Null ]
    /\ latest = "none"
    /\ oddToggles = {}
    /\ fetched = <<>>
    /\ token = stored
    /\ localStorageToken = stored
    /\ locationHref = Null

\* At most cap requests await a response after the step.
Fits(cap) == Len(inflight') <= cap

\* The steps of the page for given sets of inputs: texts typed, category lists
\* and response bodies the backend answers with, tiers and thresholds clicked,
\* statuses of the requests it rejects.
Steps(texts, lists, tiers, ratings, results, statuses, cap) ==
    \/ Mount /\ Fits(cap)
    \/ \E cats \in lists : fetchCategoriesSuccess(cats)
    \/ \E status \in statuses : fetchCategoriesFail(status)
    \/ \E text \in texts : setQuery(text) /\ Fits(cap)
    \/ handleSearch /\ Fits(cap)
    \/ \E id \in Range(categories) : selectCategory(id) /\ Fits(cap)
    \/ \E pricing \in tiers : togglePricing(pricing) /\ Fits(cap)
    \/ \E rating \in ratings : setMinRating(rating) /\ Fits(cap)
    \/ clearFilters /\ Fits(cap)
    \/ removeCategoryChip /\ Fits(cap)
    \/ removeRatingChip /\ Fits(cap)
    \/ loadNextPage /\ Fits(cap)
    \/ \E i \in 1..Len(inflight), result \in results : searchSuccess(i, result)
    \/ \E i \in 1..Len(inflight), status \in statuses : searchFailed(i, status)

\* Overlapping requests and their responses, with one value of each filter.
Queries == { <<>>, << " ", " " >>, << "a" >>, << " ", "b" >> }

Responses ==
    { [ items |-> <<>>,       total |-> 0, has_next |-> FALSE ],
      [ items |-> << "T1" >>, total |-> 2, has_next |-> TRUE ],
      [ items |-> << "T2" >>, total |-> 1, has_next |-> FALSE ] }

\* A request is rejected without a response (a transport error), or with
\* the status of its response.
Failures == { Null, Some(401), Some(500) }

\* The token of a signed-in user, as the login page stored it.
SignedIn == Some("jwt")

\* The pages that are not open, as they are first rendered.
Elsewhere ==
    /\ TrendingMounting
    /\ AuthIdle
    /\ WizardMounting(TRUE)
    /\ AdminMounting("/admin")
    /\ HomeMounting
    /\ CategoryMounting(1)
    /\ AdminToolsMounting

Init == (\E q \in { Null, Some(<< "a" >>) } : Mounting(q, SignedIn)) /\ Elsewhere

Next ==
    Steps(Queries, { << "c1" >> }, { "free" }, { 4 }, Responses, Failures,
          MaxInFlight)

Spec == Init /\ [][Next]_vars

\* Every filter control, with one text and one response body.
FilterResponses == { [ items |-> << "T1" >>, total |-> 2, has_next |-> TRUE ] }

Addresses == { Null, Some(<< "a", "%20", "i" >>) }

Texts == { <<>>, << "a", " ", "i" >> }

InitFilters == (\E q \in Addresses : Mounting(q, SignedIn)) /\ Elsewhere

NextFilters ==
    Steps(Texts, { << "c1", "c2" >> }, { "free", "paid" },
          Range(ratingOptions), FilterResponses, Failures, MaxInFlightFilters)

SpecFilters == InitFilters /\ [][NextFilters]_vars

\* One value of every filter and one request at a time.
NextBasic ==
    Steps(Texts, { << "c1" >> }, { "free" }, { 4 }, FilterResponses, Failures,
          MaxInFlightBasic)

SpecBasic == InitFilters /\ [][NextBasic]_vars

\* The same under the page's scheduling: React runs the effects of the first
\* commit.  The user and the backend are under no obligation.
SpecLive == SpecBasic /\ WF_vars(Mount)

\* One value of every filter and overlapping requests that all succeed or
\* fail without a response.
InitOverlap == Mounting(Some(<< "a", "%20", "i" >>), SignedIn) /\ Elsewhere

NextOverlap ==
    Steps(Texts, { << "c1" >> }, { "free" }, { 4 }, FilterResponses, { Null },
          MaxInFlightOverlap)

SpecOverlap == InitOverlap /\ [][NextOverlap]_vars

\* The trending page, opened by a signed-in user.
InitTrending ==
    /\ TrendingMounting
    /\ Mounting(Null, SignedIn)
    /\ AuthIdle
    /\ WizardMounting(TRUE)
    /\ AdminMounting("/admin")
    /\ HomeMounting
    /\ CategoryMounting(1)
    /\ AdminToolsMounting

NextTrending ==
    \/ TrendingMount
    \/ TrendingLoadMore
    \/ \E has_next \in BOOLEAN : trendingSuccess(has_next)
    \/ \E status \in Failures : trendingFailed(status)

SpecTrending == InitTrending /\ [][NextTrending]_vars

\* The API client as constructed with or without a stored token, and the
\* calls of its auth methods.  The backend may answer with an empty token.
Tokens == { Some("jwt"), Some("") }

InitAuth ==
    /\ \E stored \in { Null, SignedIn } : Mounting(Null, stored)
    /\ TrendingMounting
    /\ AuthIdle
    /\ WizardMounting(TRUE)
    /\ AdminMounting("/admin")
    /\ HomeMounting
    /\ CategoryMounting(1)
    /\ AdminToolsMounting

NextAuth ==
    \/ \E t \in Tokens \cup { Null } : callSetToken(t)
    \/ logout
    \/ \E call \in { "register", "login", "deleteAccount" } : authRequest(call)
    \/ \E i \in 1..Len(authPending), t \in Tokens : authSuccess(i, t)
    \/ \E i \in 1..Len(authPending), status \in Failures : authFailed(i, status)

SpecAuth == InitAuth /\ [][NextAuth]_vars

\* The submit wizard, opened by a visitor who is or is not signed in.
Urls == { <<>>, << " " >>, << "a" >>, << "b" >> }

InitWizard ==
    /\ \E authenticated \in BOOLEAN : WizardMounting(authenticated)
    /\ Mounting(Null, SignedIn)
    /\ TrendingMounting
    /\ AuthIdle
    /\ AdminMounting("/admin")
    /\ HomeMounting
    /\ CategoryMounting(1)
    /\ AdminToolsMounting

NextWizard ==
    \/ \E text \in Urls : setUrl(text)
    \/ handleExtract
    \/ extractSuccess
    \/ \E status \in Failures : extractFailed(status)
    \/ editInformation
    \/ handleSubmit
    \/ submitSuccess("slug")
    \/ \E status \in Failures : submitFailed(status)
    \/ leaveWizard

SpecWizard == InitWizard /\ [][NextWizard]_vars

\* The admin layout, opened at one of its pages with or without a stored
\* token, for every outcome of the auth check.
Roles == { Some("user"), Some("admin"), Some("super_admin") }

InitAdminLayout ==
    /\ \E path \in Range(navItems) : AdminMounting(path)
    /\ \E stored \in { Null, SignedIn } : Mounting(Null, stored)
    /\ TrendingMounting
    /\ AuthIdle
    /\ WizardMounting(TRUE)
    /\ HomeMounting
    /\ CategoryMounting(1)
    /\ AdminToolsMounting

NextAdminLayout ==
    \/ AdminMount
    \/ \E loading \in BOOLEAN, authenticated \in BOOLEAN, role \in Roles \cup { Null } :
          useAuthChanged(loading, authenticated, role)
    \/ \E href \in Range(navItems) : navigate(href)

SpecAdminLayout == InitAdminLayout /\ [][NextAdminLayout]_vars

\* The home page, for every outcome of each request and every order of
\* completion.
HomeItems == { <<>>, << 1 >>, << 1, 2 >> }

HomeResponses(req) ==
    { Null, Some([ok |-> FALSE, body |-> Null]), Some([ok |-> TRUE, body |-> Null]) }
    \cup (IF req = "categories"
          THEN { Some([ok |-> TRUE, body |-> Some(items)]) : items \in HomeItems }
          ELSE { Some([ok |-> TRUE, body |-> Some([items |-> Null])]) }
               \cup { Some([ok |-> TRUE, body |-> Some([items |-> Some(items)])]) :
                        items \in HomeItems })

InitHome ==
    /\ HomeMounting
    /\ Mounting(Null, SignedIn)
    /\ TrendingMounting
    /\ AuthIdle
    /\ WizardMounting(TRUE)
    /\ AdminMounting("/admin")
    /\ CategoryMounting(1)
    /\ AdminToolsMounting

NextHome ==
    \/ HomeMount
    \/ \E req \in homeRequests : \E res \in HomeResponses(req) :
          homeSettled(req, res)

SpecHome == InitHome /\ [][NextHome]_vars

\* The page of a category, opened at every page number of the address, for
\* every page count and total the server can answer with.
CategoryTotals(pages) ==
    IF pages = 0 THEN { 0 } ELSE { (pages - 1) * pageSize + 1, pages * pageSize }

CategoryData ==
    { [pages |-> pages, total |-> count, hasItems |-> hasItems,
       has_prev |-> has_prev, has_next |-> has_next] :
        << pages, count >> \in { << n, c >> \in (0..MaxCategoryPages)
                                     \X (0..(MaxCategoryPages * pageSize)) :
                                   c \in CategoryTotals(n) },
        hasItems \in BOOLEAN, has_prev \in BOOLEAN, has_next \in BOOLEAN }

InitCategory ==
    /\ \E current \in 0..(MaxCategoryPages + 1) : CategoryMounting(current)
    /\ Mounting(Null, SignedIn)
    /\ TrendingMounting
    /\ AuthIdle
    /\ WizardMounting(TRUE)
    /\ AdminMounting("/admin")
    /\ HomeMounting
    /\ AdminToolsMounting

NextCategory ==
    \/ CategoryMount
    \/ \E data \in CategoryData : categoryLoaded(data)
    \/ \E status \in Failures : categoryFailed(status)
    \/ \E newPage \in 0..(MaxCategoryPages + 1) : handlePageChange(newPage)

SpecCategory == InitCategory /\ [][NextCategory]_vars

\* The admin tools page with up to two rows, for every order in which the
\* requests in flight complete.
ToolIds == { "t1", "t2" }

ToolPages == { <<>>, << "t1" >>, << "t1", "t2" >> }

InitAdminTools ==
    /\ AdminToolsMounting
    /\ Mounting(Null, SignedIn)
    /\ TrendingMounting
    /\ AuthIdle
    /\ WizardMounting(TRUE)
    /\ AdminMounting("/admin")
    /\ HomeMounting
    /\ CategoryMounting(1)

NextAdminTools ==
    \/ AdminToolsMount
    \/ \E items \in ToolPages : toolsFetched(items)
    \/ \E status \in Failures : toolsFetchFailed(status)
    \/ \E toolId \in ToolIds : handleAutoCategorize(toolId)
    \/ \E i \in 1..MaxCategorizing : autoCategorizeSuccess(i)
    \/ \E i \in 1..MaxCategorizing, status \in Failures :
          autoCategorizeFailed(i, status)

SpecAdminTools == InitAdminTools /\ [][NextAdminTools]_vars

\* A step taken by the user.
UserStep ==
    \/ \E text \in Texts : setQuery(text)
    \/ handleSearch
    \/ \E id \in Range(categories) : selectCategory(id)
    \/ \E pricing \in Range(pricingOptions) : togglePricing(pricing)
    \/ \E rating \in Range(ratingOptions) : setMinRating(rating)
    \/ clearFilters
    \/ removeCategoryChip
    \/ removeRatingChip
    \/ loadNextPage

\* ------------------------------------------------------------- properties
Count(s, x) == Cardinality({ i \in 1..Len(s) : s[i] = x })

\* C1: once the response of the request issued last has been applied, the
\* late response of an earlier request changes neither the list, nor the
\* total, nor hasMore.
C1_StaleResponseDiscarded ==
    [][ \A i \in 1..Len(inflight), r \in Responses :
          (latest = "applied" /\ searchSuccess(i, r))
              => UNCHANGED << tools, total, hasMore >> ]_vars

\* C2: after a response has been applied the list is the concatenation, in
\* fetch order, of the pages fetched since the query or a filter last changed.
C2_ListIsFetchedPages ==
    lastOp.op = "searchSuccess" => tools = fetched

\* C3: every step that changes the query to a non-blank text, or changes the
\* category, the pricing tiers or the minimum rating, leaves page = 1 and the
\* request it issues asks for page 1.
C3_FilterChangeResetsPage ==
    [][ ( \/ query' # query /\ trim(query') # <<>>
          \/ selectedCategory' # selectedCategory
          \/ selectedPricing' # selectedPricing
          \/ minRating' # minRating )
        => /\ page' = 1
           /\ lastRequest' # NoRequest => lastRequest'.page = << 1 >> ]_vars

\* C4: a step that makes the query blank issues no request and leaves the list
\* empty and isLoading false, and the list is empty after every step that
\* leaves the query blank.
C4_BlankQueryTerminal ==
    [][ (mounted' /\ trim(query') = <<>>)
        => /\ tools' = <<>>
           /\ query' # query =>
                 /\ isLoading' = FALSE
                 /\ lastRequest' = NoRequest
                 /\ Len(inflight') = Len(inflight) ]_vars

\* C5: when the response to a request issued by Load More is applied, the list
\* becomes the list held when Load More was clicked followed by the response's
\* items, in order and with repeated entries kept.
C5_LoadMoreAppends ==
    [][ \A i \in 1..Len(inflight), r \in FilterResponses :
          (searchSuccess(i, r) /\ inflight[i].more)
              => tools' = inflight[i].held \o r.items ]_vars

C5_Witness ==
    /\ lastOp.op = "searchSuccess"
    /\ lastOp.arg = TRUE
    /\ page = 2
    /\ tools = << "T1", "T1" >>

\* C6 as claimed: a click on category X selects X, or clears the selection
\* when X was selected, and a second click on X right after the first restores
\* the selection from before the first, whatever it was.
C6_TwiceRestoresAnySelection ==
    /\ Len(selectedCategory) <= 1
    /\ lastOp.op = "selectCategory" =>
          /\ selectedCategory =
                IF lastOp.pre[1] = Some(lastOp.arg) THEN Null ELSE Some(lastOp.arg)
          /\ Len(lastOp.pre) = 2 => selectedCategory = lastOp.pre[2]

\* C6 amended: a click on category X selects X, or clears the selection when
\* X was selected; a second click on X right after the first restores the
\* selection from before the first when that was empty or X, and leaves no
\* category selected when it was another category.
C6_TwiceRestoresNullOrSame ==
    /\ Len(selectedCategory) <= 1
    /\ lastOp.op = "selectCategory" =>
          /\ selectedCategory =
                IF lastOp.pre[1] = Some(lastOp.arg) THEN Null ELSE Some(lastOp.arg)
          /\ Len(lastOp.pre) = 2 =>
                selectedCategory =
                    IF lastOp.pre[2] \in { Null, Some(lastOp.arg) }
                    THEN lastOp.pre[2] ELSE Null

C6_Witness ==
    /\ lastOp.op = "selectCategory"
    /\ lastOp.arg = "c1"
    /\ Len(lastOp.pre) = 2
    /\ lastOp.pre[2] = Some("c2")
    /\ selectedCategory = Null

\* C7: a click on the rating radio t clears minRating when t is the active
\* value and sets it to t otherwise; minRating is always unset or one of 2, 3,
\* 4; a request issued while it is unset carries no min_rating parameter.
C7_MinRatingToggle ==
    /\ [][ \A t \in Range(ratingOptions) :
              setMinRating(t)
                  => minRating' = IF minRating = Some(t) THEN Null ELSE Some(t) ]_vars
    /\ [](minRating \in { Null, Some(2), Some(3), Some(4) })
    /\ [](lastRequest # NoRequest /\ minRating = Null
              => lastRequest.min_rating = <<>>)

C7_Witness ==
    /\ lastOp.op = "setMinRating"
    /\ minRating = Null
    /\ lastRequest # NoRequest
    /\ lastRequest.min_rating = <<>>

\* C8: the selected tiers are exactly the tiers toggled an odd number of times
\* since the set was last empty, none is held twice, and the request issued
\* by a toggle carries one pricing parameter per selected tier and no other.
C8_PricingToggle ==
    /\ Range(selectedPricing) = oddToggles
    /\ Len(selectedPricing) = Cardinality(Range(selectedPricing))
    /\ (lastOp.op = "togglePricing" /\ lastRequest # NoRequest) =>
          \A tier \in Range(pricingOptions) :
              Count(lastRequest.pricing, tier) =
                  IF tier \in Range(selectedPricing) THEN 1 ELSE 0

C8_Witness ==
    /\ lastOp.op = "togglePricing"
    /\ lastOp.arg = "free"
    /\ lastOp.pre = << "free", "paid" >>
    /\ selectedPricing = << "paid" >>
    /\ oddToggles = { "paid" }
    /\ lastRequest.pricing = << "paid" >>

\* C9: one click on Clear all leaves no category, no pricing tier and no
\* minimum rating selected and page = 1, and keeps the query; it issues at
\* most one request, built from the cleared filters.  The handler does not
\* touch the list: it stays as it was while the request is awaited, and with
\* a blank query the search effect that follows leaves it empty.
C9_ClearFiltersAtomic ==
    [][ clearFilters
        => /\ selectedCategory' = Null
           /\ selectedPricing' = <<>>
           /\ minRating' = Null
           /\ page' = 1
           /\ query' = query
           /\ Len(inflight') <= Len(inflight) + 1
           /\ trim(query) # <<>> =>
                 /\ tools' = tools
                 /\ Len(inflight') = Len(inflight) + 1
                 /\ lastRequest' =
                       [ NoRequest EXCEPT !.q = << query >>, !.page = << 1 >>,
                                          !.limit = << 20 >>,
                                          !.search_type = << "hybrid" >> ]
           /\ trim(query) = <<>> =>
                 /\ tools' = <<>>
                 /\ Len(inflight') = Len(inflight)
                 /\ lastRequest' = NoRequest ]_vars

C9_Witness ==
    /\ lastOp.op = "clearFilters"
    /\ lastRequest # NoRequest
    /\ tools # <<>>
    /\ Len(inflight) = 1

\* C10: Load More acts only while hasMore is true and no search request
\* awaits its response; it raises page by one and, while a search is active,
\* issues one request for the new page.
C10_LoadNextPageGuard ==
    [][ loadNextPage
        => /\ hasMore
           /\ inflight = <<>>
           /\ page' = page + 1
           /\ trim(query) # <<>> =>
                 /\ Len(inflight') = 1
                 /\ lastRequest'.page = << page + 1 >> ]_vars

\* C11: a failed search request leaves the list, the total and hasMore as
\* they were, sets isLoading to false and issues no request, whatever the
\* page of the request and whatever the kind of failure.
C11_FailureKeepsResults ==
    [][ \A i \in 1..Len(inflight), status \in Failures :
          searchFailed(i, status)
              => /\ UNCHANGED << tools, total, hasMore >>
                 /\ isLoading' = FALSE
                 /\ inflight' = RemoveAt(inflight, i)
                 /\ UNCHANGED << lastRequest, latest, page, query >>
                    \/ (latest = "pending" /\ latest' = "failed"
                        /\ UNCHANGED << lastRequest, page, query >>) ]_vars

\* A page-2 request has failed and the first page is still listed.
C11_Witness ==
    /\ lastOp.op = "searchFailed"
    /\ page = 2
    /\ tools # <<>>
    /\ total = 2 /\ hasMore
    /\ ~isLoading
    /\ inflight = <<>>

\* C12: every kind of search failure has the same and only effect: results
\* unchanged and loading cleared; it changes neither the stored auth token
\* nor the window's address.
C12_UniformFailurePath ==
    [][ \A i \in 1..Len(inflight), status \in Failures :
          searchFailed(i, status)
              => /\ UNCHANGED << tools, total, hasMore >>
                 /\ isLoading' = FALSE
                 /\ UNCHANGED << token, localStorageToken, locationHref >>
                 /\ UNCHANGED << query, page, selectedCategory, selectedPricing,
                                 minRating, categories, routerPush >> ]_vars

\* C13: submitting the search form pushes the address /search?q=<query>, whose
\* only parameter decodes to the current query text, and no other step pushes
\* an address: a step that changes the query text or a filter, or that moves
\* to the next page, pushes none.
C13_AddressFollowsSubmit ==
    [][ /\ handleSearch
            => /\ routerPush' # Null
               /\ Head(routerPush'[1]) = "/search?q="
               /\ decodeURIComponent(Tail(routerPush'[1])) = query
        /\ routerPush' # Null => handleSearch
        /\ \/ << query, selectedCategory, selectedPricing, minRating >>'
                  # << query, selectedCategory, selectedPricing, minRating >>
           \/ page' > page
           => routerPush' = Null ]_vars

\* The form was submitted on a later page with a tier selected and a query
\* that needs encoding.
C13_Witness ==
    /\ lastOp.op = "handleSearch"
    /\ routerPush = Some(<< "/search?q=", "a", "%20", "i" >>)
    /\ selectedPricing # <<>>
    /\ page = 1
    /\ tools # <<>>

\* C14: before the mount page is 1, no category, tier or rating is selected,
\* the list is empty and query is the text of the address's q parameter, or
\* empty without one; a mount with a blank query issues no request and leaves
\* isLoading false.
C14_InitialState ==
    /\ [](~mounted
            => /\ page = 1
               /\ selectedCategory = Null
               /\ selectedPricing = <<>>
               /\ minRating = Null
               /\ tools = <<>>
               /\ lastOp.op = "render"
               /\ IF lastOp.arg = Null
                  THEN query = <<>>
                  ELSE encodeURIComponent(query) = lastOp.arg[1])
    /\ [][ Mount /\ trim(query) = <<>>
             => /\ isLoading' = FALSE
                /\ inflight' = <<>>
                /\ lastRequest' = NoRequest
                /\ tools' = <<>> ]_vars

\* The page was opened without a q parameter and has mounted.
C14_Witness ==
    /\ mounted
    /\ lastOp.op = "mount"
    /\ query = <<>>
    /\ ~isLoading
    /\ inflight = <<>>
    /\ page = 1

\* C15: page is always an integer of at least 1, and a step that changes it
\* is either Load More raising it by exactly one or a reset to 1.
C15_PageCursor ==
    /\ [](page \in Nat /\ page >= 1)
    /\ [][ page' # page
             => \/ loadNextPage /\ page' = page + 1
                \/ page' = 1 ]_vars

\* Load More has moved the cursor to the second page.
C15_Witness ==
    /\ lastOp.op = "loadNextPage"
    /\ page = 2
    /\ isLoading
    /\ Len(inflight) = 1

\* C16: a successful response to a page-1 request replaces the list by the
\* response's items; a response to a later page appends its items to the
\* list as it is when the response is applied; total and hasMore are taken
\* from the response and isLoading becomes false.
C16_ApplyResponse ==
    [][ \A i \in 1..Len(inflight), r \in Responses :
          searchSuccess(i, r)
              => /\ tools' = IF inflight[i].page = 1
                             THEN r.items
                             ELSE tools \o r.items
                 /\ total' = r.total
                 /\ hasMore' = r.has_next
                 /\ isLoading' = FALSE ]_vars

\* C17: a request that is issued carries q, page and limit = 20 of the state
\* it is issued in, category_id exactly when a category is selected,
\* min_rating exactly when a minimum rating is selected, and pricing once for
\* every selected tier and not at all when none is selected.
C17_RequestDescriptor ==
    [][ Len(inflight') = Len(inflight) + 1
          => /\ lastRequest'.q = << query' >>
             /\ lastRequest'.page = << page' >>
             /\ lastRequest'.limit = << 20 >>
             /\ lastRequest'.category_id = selectedCategory'
             /\ lastRequest'.min_rating = minRating'
             /\ \A tier \in Range(pricingOptions) :
                   Count(lastRequest'.pricing, tier) =
                       IF tier \in Range(selectedPricing') THEN 1 ELSE 0
             /\ inflight'[Len(inflight')].page = page' ]_vars

\* A request was issued with a category, two tiers and a minimum rating.
C17_Witness ==
    /\ Len(inflight) = 1
    /\ lastRequest.category_id = << "c2" >>
    /\ lastRequest.pricing = << "paid", "free" >>
    /\ lastRequest.min_rating = << 3 >>
    /\ lastRequest.q = << << "a", " ", "i" >> >>

\* C18: the mount and every step that changes query, page, the category, the
\* tiers or the minimum rating issue exactly one request, for the values
\* after the change, when the trimmed query is not empty, and none when it
\* is blank; no other step issues a request.
C18_FetchTrigger ==
    [][ LET deps == << query, page, selectedCategory, selectedPricing, minRating >>
            ran  == deps' # deps \/ (mounted' /\ ~mounted)
        IN  IF ran /\ trim(query') # <<>>
            THEN /\ Len(inflight') = Len(inflight) + 1
                 /\ SubSeq(inflight', 1, Len(inflight)) = Superseded(TRUE)
                    \/ SubSeq(inflight', 1, Len(inflight)) = inflight
                 /\ lastRequest'.q = << query' >>
                 /\ lastRequest'.page = << page' >>
                 /\ lastRequest'.category_id = selectedCategory'
                 /\ lastRequest'.pricing = selectedPricing'
                 /\ lastRequest'.min_rating = minRating'
            ELSE /\ Len(inflight') <= Len(inflight)
                 /\ lastRequest' \in { lastRequest, NoRequest } ]_vars

\* Removing the minimum rating on the second page issued one request, for
\* page 2 and without min_rating.
C18_Witness ==
    /\ lastOp.op = "removeRatingChip"
    /\ page = 2
    /\ Len(inflight) = 1
    /\ lastRequest.page = << 2 >>
    /\ lastRequest.min_rating = <<>>
    /\ isLoading

\* C19: isLoading is false only if no search request awaits a response, that
\* is, it is true whenever at least one does, also after one of several
\* overlapping requests has completed.
C19_IdleMeansNothingOutstanding ==
    inflight # <<>> => isLoading

\* C20: when the user eventually stops acting and every issued request
\* completes, so that time and again none awaits a response, isLoading
\* eventually becomes false and stays false; and once the page has mounted
\* isLoading is true only while a request that has not completed awaits its
\* response.
C20_LoadingEventuallyClears ==
    /\ [](mounted /\ isLoading => inflight # <<>>)
    /\ (<>[][~UserStep]_vars /\ []<>(inflight = <<>>)) => <>[](~isLoading)

\* The request for the second page has completed and the page is idle.
C20_Witness ==
    /\ mounted
    /\ lastOp.op = "searchSuccess"
    /\ lastOp.arg
    /\ latest = "applied"
    /\ inflight = <<>>
    /\ ~isLoading
    /\ locationHref = Null

\* C21: while the page is loaded a change of the query text or of a filter is
\* accepted whatever awaits a response; a step that changes query, page or a
\* filter to a state with a non-blank query adds one request and removes none
\* of those awaiting a response; and every request awaiting a response can
\* still be answered or rejected.
C21_NonBlockingDispatch ==
    /\ [](mounted /\ locationHref = Null
            => /\ ENABLED (\E text \in Texts : setQuery(text))
               /\ ENABLED togglePricing("free")
               /\ \A i \in 1..Len(inflight) :
                     /\ ENABLED searchFailed(i, Null)
                     /\ inflight[i].page = 1
                          => \E r \in FilterResponses : ENABLED searchSuccess(i, r))
    /\ [][ ( /\ << query, page, selectedCategory, selectedPricing, minRating >>'
                  # << query, page, selectedCategory, selectedPricing, minRating >>
             /\ trim(query') # <<>> )
           => /\ Len(inflight') = Len(inflight) + 1
              /\ \A i \in 1..Len(inflight) :
                    /\ inflight'[i].page = inflight[i].page
                    /\ inflight'[i].tools = inflight[i].tools ]_vars

\* A tier was toggled while the request for the second page was in flight:
\* both requests await their responses.
C21_Witness ==
    /\ Len(inflight) = 2
    /\ lastOp.op = "togglePricing"
    /\ inflight[1].page = 2
    /\ inflight[2].page = 1
    /\ isLoading

\* C23: while the query is blank the page does not offer Load More: hasMore
\* is false or the button is hidden because a search is loading.
C23_NoLoadMoreWhenBlank ==
    (mounted /\ trim(query) = <<>>) => ~(hasMore /\ ~isLoading)

\* C22: the list of the trending page is always the concatenation of pages
\* 1..k for some k, without a gap, also after a fetch has failed.
C22_NoPageSkipped ==
    trendingTools = [ i \in 1..Len(trendingTools) |-> i ]

\* C24: the in-memory token always equals the stored one; a request carries
\* an Authorization header exactly when the in-memory token is not null; an
\* auth call that fails with a status other than 401 leaves the token as it
\* was; and issuing deleteAccount does not touch the token before its
\* request has succeeded.
C24_TokenConsistency ==
    /\ [](token = localStorageToken)
    /\ [][ Len(authPending') = Len(authPending) + 1
             => (authPending'[Len(authPending')].authorization # Null
                    <=> token # Null) ]_vars
    /\ [][ \A i \in 1..Len(authPending), status \in Failures \ { Some(401) } :
             authFailed(i, status) => UNCHANGED << token, localStorageToken >> ]_vars
    /\ [][ authRequest("deleteAccount")
             => UNCHANGED << token, localStorageToken >> ]_vars

\* C25: the step changes only from url to preview when an extraction has
\* succeeded, from preview to url, and from preview to success when a
\* submission has succeeded; success is terminal; in step preview there is
\* extracted data; an extraction is requested only for a non-blank URL and a
\* signed-in user; a failure leaves the step alone; and isExtracting and
\* isSubmitting are false when their request has completed.
C25_WizardSteps ==
    /\ [](step = "preview" => extractedData # Null)
    /\ [](extractPending = Null => ~isExtracting)
    /\ [](submitPending = Null => ~isSubmitting)
    /\ [][ step' # step
             => \/ step = "url" /\ step' = "preview" /\ extractSuccess
                \/ step = "preview" /\ step' = "url"
                \/ step = "preview" /\ step' = "success" /\ submitSuccess("slug") ]_vars
    /\ [][ extractPending' # Null /\ extractPending = Null
             => trim(url) # <<>> /\ isAuthenticated ]_vars
    /\ [][ (\E status \in Failures : extractFailed(status) \/ submitFailed(status))
             => step' = step ]_vars

\* C26: the URL a submit request sends is the URL of the extraction whose
\* result the preview shows.
C26_SubmittedIsPreviewed ==
    [][ handleSubmit => submitPending' = extractedData ]_vars

\* C27: once the layout has mounted and the auth check is over, a visitor
\* who is not authenticated has been sent to /login?redirect=<path> and an
\* authenticated user who is neither admin nor super_admin to /; nobody is
\* redirected while the check is loading, nor is an authenticated admin or
\* super_admin; and the page's content is rendered only for an authenticated
\* admin or super_admin.
C27_AdminGuard ==
    adminMounted
        => /\ (~authIsLoading /\ ~authIsAuthenticated)
                => adminPush = Some(<< "/login?redirect=", pathname >>)
           /\ (~authIsLoading /\ authIsAuthenticated /\ notAdmin(userRole))
                => adminPush = Some(<< "/" >>)
           /\ (authIsLoading \/ (authIsAuthenticated /\ ~notAdmin(userRole)))
                => adminPush = Null
           /\ adminRender = "children"
                => authIsAuthenticated /\ ~notAdmin(userRole)

\* C28: once the three requests of the home page have all completed, the
\* banner is shown exactly when all three failed, in whatever order they
\* completed; and the section of a request that has completed is not
\* loading, whatever the state of the other two.
C28_BannerIffAllFailed ==
    homeMounted
        => /\ (\A req \in homeRequests : homeCalls[req] # "pending")
                => (backendError # Null
                      <=> \A req \in homeRequests : homeCalls[req] = "rejected")
           /\ homeCalls["featured"] # "pending" => ~isLoadingFeatured
           /\ homeCalls["trending"] # "pending" => ~isLoadingTrending
           /\ homeCalls["categories"] # "pending" => ~isLoadingCategories

\* All three requests failed, the categories last, and the banner is shown.
C28_WitnessAllFailed ==
    /\ \A req \in homeRequests : homeCalls[req] = "rejected"
    /\ backendError = Some("Backend connection failed")
    /\ ~isLoadingFeatured /\ ~isLoadingTrending /\ ~isLoadingCategories

\* C29: when the pagination block is rendered for P >= 2 pages and a current
\* page p with 1 <= p <= P, its buttons are exactly min(P, 7) distinct
\* consecutive integers, all within 1..P, p is one of them, and the range
\* shown runs from (p-1)*20+1 to min(p*20, total).
C29_PaginationWindow ==
    (/\ pagination # Null
     /\ toolsData[1].pages >= 2
     /\ 1 <= categoryPage /\ categoryPage <= toolsData[1].pages)
        => LET P == toolsData[1].pages
               buttons == pagination[1].buttons
           IN  /\ Len(buttons) = Min(P, 7)
               /\ \A j \in 1..(Len(buttons) - 1) : buttons[j + 1] = buttons[j] + 1
               /\ \A j \in 1..Len(buttons) : buttons[j] \in 1..P
               /\ \E j \in 1..Len(buttons) : buttons[j] = categoryPage
               /\ pagination[1].from = (categoryPage - 1) * 20 + 1
               /\ pagination[1].to = IF categoryPage * 20 <= toolsData[1].total
                                     THEN categoryPage * 20
                                     ELSE toolsData[1].total

\* The window in the middle of nine pages: page 5 shows buttons 2 to 8.
C29_WitnessMiddle ==
    /\ pagination # Null
    /\ toolsData[1].pages = 9
    /\ categoryPage = 5
    /\ pagination[1].buttons = << 2, 3, 4, 5, 6, 7, 8 >>
    /\ pagination[1].from = 81

\* C30: the tool of every auto-categorize request in flight is the one
\* processingId identifies, so its button is disabled, also when requests for
\* two tools overlap and complete in either order; and processingId is null
\* once no auto-categorize request is in flight.
C30_BusyMarker ==
    /\ \A i \in 1..Len(categorizing) :
          /\ processingId = Some(categorizing[i])
          /\ ~autoCategorizeEnabled(categorizing[i])
    /\ categorizing = <<>> => processingId = Null

====
